---- MODULE Spec2Model ----
(***************************************************************************)
(* Model of interpreter/core/async_core.py: the chunk accumulator           *)
(* (AsyncInterpreter.accumulate), the input dispatcher                      *)
(* (AsyncInterpreter.input), the response worker (AsyncInterpreter.respond) *)
(* and the output queue.                                                    *)
(*                                                                          *)
(* Python values are encoded as follows.                                    *)
(*   dict            a function whose DOMAIN is the set of its keys         *)
(*   None / absent   the empty tuple <<>>; a present value x is <<x>>       *)
(*   str  "ab"       <<"str", "ab">>                                        *)
(*   bytes b"ab"     <<"bytes", "ab">>                                      *)
(*   a bytes chunk   the one-key function [bytes |-> "ab"] (a dict chunk    *)
(*                   never has that key)                                    *)
(***************************************************************************)
EXTENDS Integers, Sequences, FiniteSets, TLC

VARIABLES
    messages,        \* self.messages, the conversation log
    respond_thread,  \* self.respond_thread: 0 is None, else a thread id
    stop_event,      \* self.stop_event (threading.Event)
    output_queue,    \* self.output_queue: <<>> is None, <<q>> a queue holding q
    auto_run,        \* self.auto_run
    threads,         \* the threading.Thread objects created by input()
    input_pc,        \* where the event loop stands inside input()
    input_result,    \* how the latest input() call went
    puts,            \* every item placed on the queue, with the thread that put it
    delivered,       \* every item output() has returned
    acc_pre,         \* the log before the latest direct accumulate() call
    acc_chunk,       \* the chunk of the latest direct accumulate() call
    acc_raised,      \* the exception it raised, "" when none
    fed,             \* the chunks accumulated since the log was created empty
    api_key,         \* os.getenv("INTERPRETER_API_KEY"): <<>> is unset
    require_acknowledge,   \* self.require_acknowledge
    acknowledged_outputs,  \* self.acknowledged_outputs, a list
    authenticated,   \* receive_input's local of that name
    recv_pc,         \* where receive_input stands
    ws_reply,        \* the frames receive_input sent while serving the latest frame
    ws_passed,       \* what it passed to input() while serving it, <<>> when nothing
    send_pc,         \* where send_output stands
    attempt,         \* the attempts send_output has begun for the current item
    out,             \* send_output's local output, <<>> before the first item
    ws_count,        \* how often send_output has transmitted the current item
    ws_order,        \* the items send_output has transmitted, in order, each once
    ws_failures,     \* the items whose delivery send_output has reported as failed
    ws_errors,       \* the frames the except clause of send_output has sent
    llm,             \* the attributes of self.llm, the sub-settings of "llm"
    http_reply       \* what the latest HTTP request was answered with

\* the state of the HTTP routes
http_vars == <<llm, http_reply>>

\* the state of the server: the websocket adapter and the HTTP routes
ws_vars == <<api_key, require_acknowledge, acknowledged_outputs, authenticated,
             recv_pc, ws_reply, ws_passed, send_pc, attempt, out, ws_count,
             ws_order, ws_failures, ws_errors, http_vars>>

vars == <<messages, respond_thread, stop_event, output_queue, auto_run, threads,
          input_pc, input_result, puts, delivered, acc_pre, acc_chunk,
          acc_raised, fed, ws_vars>>

(***************************************************************************)
(* Bounds of the model.                                                     *)
(***************************************************************************)
\* messages in the conversation log
MaxLog == 2

\* characters held by the whole log, when accumulate() is called directly
MaxContent == 2

\* chunks of a sequence fed to the empty log
MaxFed == 3

\* response threads input() starts
MaxThreads == 2

\* chunks the generator yields in one response cycle
MaxGen == 2

\* characters of one message of the engine's log ("stop" has four)
MaxMsgChars == 4

\* response threads started over a websocket connection
MaxWsThreads == 1

\* identifiers waiting in acknowledged_outputs
MaxAcks == 1

\* items response workers place on the queue while send_output is watched
MaxItems == 2

\* for attempt in range(100), line 446
Attempts == 100

(***************************************************************************)
(* Python values.                                                           *)
(***************************************************************************)
None == <<>>

Some(x) == <<x>>

Str(s) == <<"str", s>>

Bytes(s) == <<"bytes", s>>

\* len() of a str or bytes value
PyLen(v) == Len(v[2])

\* a + b on str/bytes: the concatenation; defined when both are of one kind
PyAdd(a, b) == <<a[1], a[2] \o b[2]>>

\* whether a + b raises TypeError (str + bytes, bytes + str)
AddRaises(a, b) == a[1] # b[1]

\* key in d
Has(d, k) == k \in DOMAIN d

\* d.get(k)
Get(d, k) == IF k \in DOMAIN d THEN Some(d[k]) ELSE None

\* d[k] = v
SetKey(d, k, v) == [x \in DOMAIN d \cup {k} |-> IF x = k THEN v ELSE d[x]]

\* d.pop(k), for a key that is present or not
PopKey(d, k) == [x \in DOMAIN d \ {k} |-> d[x]]

\* type(chunk) == bytes
IsBytesChunk(chunk) == "bytes" \in DOMAIN chunk

\* Python truthiness of chunk.get("format"): None and "" are falsy
Truthy(opt) == opt # None /\ opt # Some("")

\* self.messages[-1]
LastOf(msgs) == msgs[Len(msgs)]

\* self.messages with its last element replaced
WithLast(msgs, m) == [msgs EXCEPT ![Len(msgs)] = m]

\* self.messages[:-1]
ButLast(msgs) == SubSeq(msgs, 1, Len(msgs) - 1)

complete_message == [role |-> "server", type |-> "status", content |-> Str("complete")]

(***************************************************************************)
(* AsyncInterpreter.accumulate.  The result is the log afterwards and the   *)
(* name of the exception raised ("" when the call returns).                 *)
(***************************************************************************)
\* AppendCondition taken only on a non-empty log, so that a bare content chunk
\* on the empty log is dropped without the error of line 175
AppendCondition_NonEmptyOnly(msgs, chunk) ==
    /\ Has(chunk, "content")
    /\ Len(msgs) > 0
    /\ ~ ( \/ /\ Has(LastOf(msgs), "type")
              /\ Get(chunk, "type") # Get(LastOf(msgs), "type")
           \/ /\ Has(LastOf(msgs), "format")
              /\ Get(chunk, "format") # Get(LastOf(msgs), "format") )

\* lines 161-173: the chunk has content and nothing on the last message
\* conflicts with it
AppendCondition(msgs, chunk) ==
    /\ Has(chunk, "content")
    /\ ~ ( /\ Len(msgs) > 0
           /\ \/ /\ Has(LastOf(msgs), "type")
                 /\ Get(chunk, "type") # Get(LastOf(msgs), "type")
              \/ /\ Has(LastOf(msgs), "format")
                 /\ Get(chunk, "format") # Get(LastOf(msgs), "format") )

\* NewMessageCondition without the implicit switch on a differing type/format
NewMessageCondition_StartOnly(msgs, chunk) == Has(chunk, "start")

\* lines 196-202
NewMessageCondition(msgs, chunk) ==
    \/ Has(chunk, "start")
    \/ /\ Len(msgs) > 0
       /\ \/ Get(chunk, "type") # Get(LastOf(msgs), "type")
          \/ Get(chunk, "format") # Get(LastOf(msgs), "format")

\* lines 174-190
AppendToLast(msgs, chunk) ==
    IF Len(msgs) = 0
    THEN [messages |-> msgs, raised |-> "Exception"]
    ELSE
      LET m0 == LastOf(msgs) IN
      IF ~Has(m0, "type") /\ ~Has(chunk, "type")
      THEN [messages |-> msgs, raised |-> "KeyError"]
      ELSE
        LET m1 == IF ~Has(m0, "type") THEN SetKey(m0, "type", chunk["type"]) ELSE m0
            m2 == IF Truthy(Get(chunk, "format")) /\ ~Has(m1, "format")
                  THEN SetKey(m1, "format", chunk["format"])
                  ELSE m1
        IN
        IF ~Has(m2, "content")
        THEN [messages |-> WithLast(msgs, SetKey(m2, "content", chunk["content"])),
              raised |-> ""]
        ELSE IF AddRaises(m2["content"], chunk["content"])
        THEN [messages |-> WithLast(msgs, m2), raised |-> "TypeError"]
        ELSE [messages |->
                 WithLast(msgs, SetKey(m2, "content",
                                       PyAdd(m2["content"], chunk["content"]))),
              raised |-> ""]

\* lines 203-211
NewMessage(msgs, chunk) ==
    LET c1 == IF Has(chunk, "start") THEN PopKey(chunk, "start") ELSE chunk
        c2 == IF ~Has(c1, "content") THEN SetKey(c1, "content", Str("")) ELSE c1
    IN [messages |-> Append(msgs, c2), raised |-> ""]

\* AccumulateBytes without the conversion of the initial "" to b""
AccumulateBytes_NoConversion(msgs, chunk) ==
    IF Len(msgs) = 0
    THEN [messages |-> msgs, raised |-> "IndexError"]
    ELSE
      LET m0 == LastOf(msgs) IN
      IF ~Has(m0, "content")
      THEN [messages |-> msgs, raised |-> "KeyError"]
      ELSE IF AddRaises(m0["content"], Bytes(chunk["bytes"]))
      THEN [messages |-> msgs, raised |-> "TypeError"]
      ELSE [messages |->
               WithLast(msgs, SetKey(m0, "content",
                                     PyAdd(m0["content"], Bytes(chunk["bytes"])))),
            raised |-> ""]

\* lines 213-216
AccumulateBytes(msgs, chunk) ==
    IF Len(msgs) = 0
    THEN [messages |-> msgs, raised |-> "IndexError"]
    ELSE
      LET m0 == LastOf(msgs) IN
      IF ~Has(m0, "content")
      THEN [messages |-> msgs, raised |-> "KeyError"]
      ELSE
        LET m1 == IF m0["content"] = Str("")
                  THEN SetKey(m0, "content", Bytes(""))
                  ELSE m0
        IN
        IF AddRaises(m1["content"], Bytes(chunk["bytes"]))
        THEN [messages |-> WithLast(msgs, m1), raised |-> "TypeError"]
        ELSE [messages |->
                 WithLast(msgs, SetKey(m1, "content",
                                       PyAdd(m1["content"], Bytes(chunk["bytes"])))),
              raised |-> ""]

\* accumulate without the test of lines 157-159: an active_line chunk is
\* treated like any other
accumulate_StoresActiveLine(msgs, chunk) ==
    IF IsBytesChunk(chunk) THEN AccumulateBytes(msgs, chunk)
    ELSE IF AppendCondition(msgs, chunk) THEN AppendToLast(msgs, chunk)
    ELSE IF NewMessageCondition(msgs, chunk) THEN NewMessage(msgs, chunk)
    ELSE [messages |-> msgs, raised |-> ""]

\* lines 149-216
accumulate(msgs, chunk) ==
    IF IsBytesChunk(chunk) THEN AccumulateBytes(msgs, chunk)
    ELSE IF Get(chunk, "format") = Some("active_line")
    THEN [messages |-> msgs, raised |-> ""]
    ELSE IF AppendCondition(msgs, chunk) THEN AppendToLast(msgs, chunk)
    ELSE IF NewMessageCondition(msgs, chunk) THEN NewMessage(msgs, chunk)
    ELSE [messages |-> msgs, raised |-> ""]

(***************************************************************************)
(* Chunks.                                                                  *)
(***************************************************************************)
\* The dict {"role": role, "type": t, "format": f, "content": c, "start": True,
\* "end": True} with each of type, format, content given as None or Some(value)
\* and start, end as booleans: a key is present only when given.
MkChunk(role, t, f, c, s, e) ==
    LET keys == {"role"}
                \cup (IF t # None THEN {"type"} ELSE {})
                \cup (IF f # None THEN {"format"} ELSE {})
                \cup (IF c # None THEN {"content"} ELSE {})
                \cup (IF s THEN {"start"} ELSE {})
                \cup (IF e THEN {"end"} ELSE {})
    IN [k \in keys |->
          CASE k = "role" -> role
            [] k = "type" -> t[1]
            [] k = "format" -> f[1]
            [] k = "content" -> c[1]
            [] k = "start" -> TRUE
            [] k = "end" -> TRUE]

Opt(S) == {None} \cup {Some(x) : x \in S}

\* the chunks handed to accumulate() directly: every combination of the
\* fields it reads
AccChunks ==
    { MkChunk("user", t, f, c, s, FALSE) :
        t \in Opt({"message", "code"}),
        f \in Opt({"output", "path", "active_line"}),
        c \in Opt({Str("a")}),
        s \in BOOLEAN }

\* the chunks of the sequences fed to an empty log
SeqChunks ==
    { MkChunk("user", t, None, c, s, FALSE) :
        t \in Opt({"message"}),
        c \in Opt({Str("a"), Str("b")}),
        s \in BOOLEAN }

\* the number of characters (bytes) the log holds
RECURSIVE ContentSize(_)
ContentSize(msgs) ==
    IF msgs = <<>> THEN 0
    ELSE ContentSize(ButLast(msgs))
         + (IF Has(LastOf(msgs), "content") THEN PyLen(LastOf(msgs)["content"]) ELSE 0)

\* the log stays within the bounds of the model
Bounded(msgs) == Len(msgs) <= MaxLog /\ ContentSize(msgs) <= MaxContent

(***************************************************************************)
(* The state after AsyncInterpreter.__init__ (lines 41-55).                 *)
(***************************************************************************)
Constructed ==
    /\ messages = <<>>
    /\ respond_thread = 0
    /\ stop_event = FALSE
    /\ output_queue = None
    /\ auto_run \in BOOLEAN
    /\ threads = <<>>
    /\ input_pc = [at |-> "idle"]
    /\ input_result = [call |-> "none", raised |-> ""]
    /\ puts = <<>>
    /\ delivered = <<>>
    /\ acc_pre = <<>>
    /\ acc_chunk = [role |-> "none"]
    /\ acc_raised = "no call"
    /\ fed = <<>>
    /\ acknowledged_outputs = <<>>
    /\ authenticated = FALSE
    /\ recv_pc = "closed"
    /\ ws_reply = <<>>
    /\ ws_passed = None
    /\ send_pc = "closed"
    /\ attempt = 0
    /\ out = None
    /\ ws_count = 0
    /\ ws_order = <<>>
    /\ ws_failures = <<>>
    /\ ws_errors = <<>>
    /\ llm = [model |-> "m0"]
    /\ http_reply = None

\* the environment at its defaults: no INTERPRETER_API_KEY, no
\* INTERPRETER_REQUIRE_ACKNOWLEDGE (lines 50-52 and 226)
Init ==
    /\ Constructed
    /\ api_key = None
    /\ require_acknowledge = FALSE

(***************************************************************************)
(* The chunks of the engine: what the transport hands to input() and what   *)
(* the response generator yields.                                           *)
(***************************************************************************)
StartChunk == MkChunk("user", None, None, None, TRUE, FALSE)

HiChunk == MkChunk("user", Some("message"), None, Some(Str("hi")), FALSE, FALSE)

EndChunk == MkChunk("user", None, None, None, FALSE, TRUE)

CommandStartChunk == MkChunk("user", Some("command"), None, None, TRUE, FALSE)

StopChunk == MkChunk("user", Some("command"), None, Some(Str("stop")), FALSE, FALSE)

GoChunk == MkChunk("user", Some("command"), None, Some(Str("go")), FALSE, FALSE)

\* a whole message in one chunk
HiStartEndChunk == MkChunk("user", Some("message"), None, Some(Str("hi")), TRUE, TRUE)

InputChunks ==
    {StartChunk, HiChunk, EndChunk, CommandStartChunk, StopChunk, GoChunk,
     HiStartEndChunk}

OkChunk == MkChunk("assistant", Some("message"), None, Some(Str("ok")), FALSE, FALSE)

ConfirmationChunk ==
    MkChunk("computer", Some("confirmation"), Some("execution"), Some(Str("code")),
            FALSE, FALSE)

GenChunks == {OkChunk, ConfirmationChunk}

\* lines 138-142; the traceback text is not modelled
error_message == [role |-> "server", type |-> "error", content |-> Str("traceback")]

\* the engine's log stays within the bounds of the model
EngineBounded(msgs) ==
    /\ Len(msgs) <= MaxLog
    /\ \A i \in 1..Len(msgs) :
          Has(msgs[i], "content") => PyLen(msgs[i]["content"]) <= MaxMsgChars

(***************************************************************************)
(* Threads.                                                                 *)
(***************************************************************************)
\* Thread.is_alive()
Alive(t) == threads[t].state \in {"started", "running"}

Workers == 1..Len(threads)

\* the items thread t has placed on the queue, in order
RECURSIVE PutsOf(_, _)
PutsOf(ps, t) ==
    IF ps = <<>> THEN <<>>
    ELSE IF LastOf(ps).thread = t
         THEN Append(PutsOf(ButLast(ps), t), LastOf(ps).item)
         ELSE PutsOf(ButLast(ps), t)

\* output_queue.sync_q.put(item) for each item of items, by thread t; on
\* self.output_queue == None the attribute access raises
QueueIsNone == output_queue = None

PutAll(t, items) ==
    /\ output_queue' = Some(output_queue[1] \o items)
    /\ puts' = puts \o [i \in 1..Len(items) |-> [thread |-> t, item |-> items[i]]]

(***************************************************************************)
(* AsyncInterpreter.input (lines 57-95).                                    *)
(***************************************************************************)
Idle == input_pc.at = "idle"

\* what is recorded of an input() call: the branch it took ("start",
\* "content", "end", or "stop" for an end chunk closing a stop command) and the
\* exception it raised, "" when none
CallRecord(call, raised) == [call |-> call, raised |-> raised]

\* line 68 and line 70
InputAccumulate(chunk) ==
    LET r == accumulate(messages, chunk) IN
    /\ EngineBounded(r.messages)
    /\ messages' = r.messages
    /\ input_result' = CallRecord(IF Has(chunk, "start") THEN "start" ELSE "content",
                                  r.raised)

\* lines 63-68, up to the join
InputStartCall(chunk) ==
    /\ Idle
    /\ Has(chunk, "start")
    /\ IF respond_thread # 0 /\ Alive(respond_thread)
       THEN /\ stop_event' = TRUE
            /\ input_pc' = [at |-> "join_start", chunk |-> chunk]
            /\ input_result' = CallRecord("start", "")
            /\ UNCHANGED messages
       ELSE /\ InputAccumulate(chunk)
            /\ UNCHANGED <<stop_event, input_pc>>
    /\ UNCHANGED <<respond_thread, output_queue, auto_run, threads, puts, delivered,
                   acc_pre, acc_chunk, acc_raised, fed>>

\* the start branch called with the websocket adapter standing by
InputStart(chunk) ==
    /\ InputStartCall(chunk)
    /\ UNCHANGED ws_vars

\* lines 67-68: the join returns, the chunk is accumulated
InputStartJoined ==
    /\ input_pc.at = "join_start"
    /\ ~Alive(respond_thread)
    /\ LET r == accumulate(messages, input_pc.chunk) IN
          /\ EngineBounded(r.messages)
          /\ messages' = r.messages
          /\ input_result' = [input_result EXCEPT !.raised = r.raised]
    /\ input_pc' = [at |-> "idle"]
    /\ UNCHANGED <<respond_thread, stop_event, output_queue, auto_run, threads,
                   puts, delivered, acc_pre, acc_chunk, acc_raised, fed>>
    /\ UNCHANGED ws_vars

\* lines 69-70
InputContentCall(chunk) ==
    /\ Idle
    /\ ~Has(chunk, "start")
    /\ Has(chunk, "content")
    /\ InputAccumulate(chunk)
    /\ UNCHANGED <<respond_thread, stop_event, output_queue, auto_run, threads,
                   input_pc, puts, delivered, acc_pre, acc_chunk, acc_raised, fed>>

\* the content branch called with the websocket adapter standing by
InputContent(chunk) ==
    /\ InputContentCall(chunk)
    /\ UNCHANGED ws_vars

\* lines 91-95
StartResponse(run_code) ==
    /\ Len(threads) < MaxThreads
    /\ stop_event' = FALSE
    /\ threads' = Append(threads, [state |-> "started",
                                   run_code |-> run_code,
                                   decision |-> None,
                                   yielded |-> 0])
    /\ respond_thread' = Len(threads) + 1

\* lines 71-95 on an empty log: self.messages[-1] raises
InputEndEmptyLog(chunk) ==
    /\ Len(messages) = 0
    /\ input_result' = CallRecord("end", "IndexError")
    /\ UNCHANGED <<messages, respond_thread, stop_event, threads, input_pc>>

\* lines 81-85
InputEndStop(chunk) ==
    /\ Len(messages) > 0
    /\ Get(LastOf(messages), "type") = Some("command")
    /\ LastOf(messages)["content"] = Str("stop")
    /\ messages' = ButLast(messages)
    /\ stop_event' = TRUE
    /\ UNCHANGED <<respond_thread, threads>>
    /\ IF respond_thread = 0
       THEN /\ input_result' = CallRecord("stop", "AttributeError")
            /\ UNCHANGED input_pc
       ELSE IF Alive(respond_thread)
       THEN /\ input_result' = CallRecord("stop", "")
            /\ input_pc' = [at |-> "join_stop"]
       ELSE /\ input_result' = CallRecord("stop", "")
            /\ UNCHANGED input_pc

\* InputEndCommand leaving the command message in the log
InputEndCommand_KeepsCommand(chunk) ==
    /\ Len(messages) > 0
    /\ Get(LastOf(messages), "type") = Some("command")
    /\ LastOf(messages)["content"] # Str("stop")
    /\ StartResponse(IF LastOf(messages)["content"] = Str("go")
                     THEN Some(TRUE) ELSE None)
    /\ input_result' = CallRecord("end", "")
    /\ UNCHANGED <<messages, input_pc>>

\* InputEndCommand taking every command other than "stop" for an approval
InputEndCommand_AnyCommandApproves(chunk) ==
    /\ Len(messages) > 0
    /\ Get(LastOf(messages), "type") = Some("command")
    /\ LastOf(messages)["content"] # Str("stop")
    /\ messages' = ButLast(messages)
    /\ StartResponse(Some(TRUE))
    /\ input_result' = CallRecord("end", "")
    /\ UNCHANGED input_pc

\* lines 77-80 and 86-95: a command other than "stop"
InputEndCommand(chunk) ==
    /\ Len(messages) > 0
    /\ Get(LastOf(messages), "type") = Some("command")
    /\ LastOf(messages)["content"] # Str("stop")
    /\ messages' = ButLast(messages)
    /\ StartResponse(IF LastOf(messages)["content"] = Str("go")
                     THEN Some(TRUE) ELSE None)
    /\ input_result' = CallRecord("end", "")
    /\ UNCHANGED input_pc

\* InputEndRespond dropping the last message although it is no command
InputEndRespond_DropsLast(chunk) ==
    /\ Len(messages) > 0
    /\ Get(LastOf(messages), "type") # Some("command")
    /\ messages' = ButLast(messages)
    /\ StartResponse(None)
    /\ input_result' = CallRecord("end", "")
    /\ UNCHANGED input_pc

\* lines 74-77 and 91-95: the last message is no command
InputEndRespond(chunk) ==
    /\ Len(messages) > 0
    /\ Get(LastOf(messages), "type") # Some("command")
    /\ StartResponse(None)
    /\ input_result' = CallRecord("end", "")
    /\ UNCHANGED <<messages, input_pc>>

\* lines 71-95
InputEndCall(chunk) ==
    /\ Idle
    /\ ~Has(chunk, "start")
    /\ ~Has(chunk, "content")
    /\ Has(chunk, "end")
    /\ \/ InputEndEmptyLog(chunk)
       \/ InputEndStop(chunk)
       \/ InputEndCommand(chunk)
       \/ InputEndRespond(chunk)
    /\ UNCHANGED <<output_queue, auto_run, puts, delivered, acc_pre, acc_chunk,
                   acc_raised, fed>>

\* the end branch called with the websocket adapter standing by
InputEnd(chunk) ==
    /\ InputEndCall(chunk)
    /\ UNCHANGED ws_vars

\* lines 84-85: the join returns, and input() with it
InputStopJoined ==
    /\ input_pc.at = "join_stop"
    /\ ~Alive(respond_thread)
    /\ input_pc' = [at |-> "idle"]
    /\ UNCHANGED <<messages, respond_thread, stop_event, output_queue, auto_run,
                   threads, input_result, puts, delivered, acc_pre, acc_chunk,
                   acc_raised, fed>>
    /\ UNCHANGED ws_vars

(***************************************************************************)
(* AsyncInterpreter.output (lines 97-100), called from the event loop.      *)
(***************************************************************************)
\* lines 98-99
OutputCreate ==
    /\ Idle
    /\ output_queue = None
    /\ output_queue' = Some(<<>>)
    /\ UNCHANGED <<messages, respond_thread, stop_event, auto_run, threads,
                   input_pc, input_result, puts, delivered, acc_pre, acc_chunk,
                   acc_raised, fed>>
    /\ UNCHANGED ws_vars

\* line 100: the get completes once an item is there
OutputGet ==
    /\ Idle
    /\ output_queue # None
    /\ output_queue[1] # <<>>
    /\ delivered' = Append(delivered, Head(output_queue[1]))
    /\ output_queue' = Some(Tail(output_queue[1]))
    /\ UNCHANGED <<messages, respond_thread, stop_event, auto_run, threads,
                   input_pc, input_result, puts, acc_pre, acc_chunk, acc_raised,
                   fed>>
    /\ UNCHANGED ws_vars

(***************************************************************************)
(* AsyncInterpreter.respond (lines 102-147), run by a worker thread.        *)
(***************************************************************************)
\* OpenInterpreter._respond_and_store, which respond() iterates: it logs each
\* chunk it yields to the conversation log through the accumulator; a
\* confirmation chunk is not part of the conversation
RespondAndStore(msgs, chunk) ==
    IF chunk["type"] = "confirmation"
    THEN [messages |-> msgs, raised |-> ""]
    ELSE accumulate(msgs, chunk)

\* OnChunk with a denied confirmation forwarded like any other chunk
OnChunk_DenialForwards(chunk, run_code, stop) ==
    IF chunk["type"] = "confirmation" /\ run_code THEN "consume"
    ELSE IF stop THEN "cancel"
    ELSE "forward"

\* lines 112-133: what the loop body does with a chunk
OnChunk(chunk, run_code, stop) ==
    IF chunk["type"] = "confirmation"
    THEN (IF run_code THEN "consume" ELSE "deny")
    ELSE IF stop THEN "cancel"
    ELSE "forward"

\* what is left of a thread once it has ended: how it ended and the run_code
\* decision it had started with
Ended(th, state) ==
    [state |-> state, run_code |-> None, decision |-> th.decision, yielded |-> 0]

\* a thread ends, having placed items on the queue; with no queue the put
\* raises, in the except clause too, and the thread dies of it
Finish(t, th, state, items) ==
    IF QueueIsNone
    THEN /\ threads' = [threads EXCEPT ![t] = Ended(th, "crashed")]
         /\ UNCHANGED <<output_queue, puts>>
    ELSE /\ threads' = [threads EXCEPT ![t] = Ended(th, state)]
         /\ PutAll(t, items)

\* RespondBegin deciding by the auto_run setting alone, the approval given by
\* a go command being lost
RespondBegin_IgnoresGo(t) ==
    /\ t \in Workers
    /\ threads[t].state = "started"
    /\ threads' = [threads EXCEPT
                     ![t].state = "running",
                     ![t].decision = Some(auto_run),
                     ![t].run_code = Some(auto_run)]
    /\ UNCHANGED <<messages, respond_thread, stop_event, output_queue, auto_run,
                   input_pc, input_result, puts, delivered, acc_pre, acc_chunk,
                   acc_raised, fed>>
    /\ UNCHANGED ws_vars

\* lines 103-105
RespondBegin(t) ==
    /\ t \in Workers
    /\ threads[t].state = "started"
    /\ threads' = [threads EXCEPT
                     ![t].state = "running",
                     ![t].decision = IF threads[t].run_code = None
                                     THEN Some(auto_run)
                                     ELSE threads[t].run_code,
                     ![t].run_code = IF threads[t].run_code = None
                                     THEN Some(auto_run)
                                     ELSE threads[t].run_code]
    /\ UNCHANGED <<messages, respond_thread, stop_event, output_queue, auto_run,
                   input_pc, input_result, puts, delivered, acc_pre, acc_chunk,
                   acc_raised, fed>>
    /\ UNCHANGED ws_vars

\* lines 107-133: the generator yields a chunk and the loop body runs
RespondChunk(t, chunk) ==
    /\ t \in Workers
    /\ threads[t].state = "running"
    /\ threads[t].yielded < MaxGen
    /\ LET r == RespondAndStore(messages, chunk)
           th == [threads[t] EXCEPT !.yielded = @ + 1]
           what == OnChunk(chunk, th.run_code[1], stop_event)
       IN
       /\ EngineBounded(r.messages)
       /\ messages' = r.messages
       /\ IF r.raised # ""
          THEN Finish(t, th, "failed", <<error_message, complete_message>>)
          ELSE CASE what = "consume" ->
                      /\ threads' = [threads EXCEPT
                                       ![t] = [th EXCEPT !.run_code = Some(FALSE)]]
                      /\ UNCHANGED <<output_queue, puts>>
                 [] what = "deny" ->
                      Finish(t, th, "denied", <<complete_message>>)
                 [] what = "cancel" ->
                      /\ threads' = [threads EXCEPT ![t] = Ended(th, "cancelled")]
                      /\ UNCHANGED <<output_queue, puts>>
                 [] what = "forward" ->
                      IF QueueIsNone
                      THEN Finish(t, th, "failed", <<>>)
                      ELSE /\ threads' = [threads EXCEPT ![t] = th]
                           /\ PutAll(t, <<chunk>>)
    /\ UNCHANGED <<respond_thread, stop_event, auto_run, input_pc, input_result,
                   delivered, acc_pre, acc_chunk, acc_raised, fed>>
    /\ UNCHANGED ws_vars

\* lines 107 and 135: the generator is exhausted
RespondExhausted(t) ==
    /\ t \in Workers
    /\ threads[t].state = "running"
    /\ Finish(t, threads[t], "completed", <<complete_message>>)
    /\ UNCHANGED <<messages, respond_thread, stop_event, auto_run, input_pc,
                   input_result, delivered, acc_pre, acc_chunk, acc_raised, fed>>
    /\ UNCHANGED ws_vars

\* lines 107 and 136-144: the generator raises
RespondRaise(t) ==
    /\ t \in Workers
    /\ threads[t].state = "running"
    /\ Finish(t, threads[t], "failed", <<error_message, complete_message>>)
    /\ UNCHANGED <<messages, respond_thread, stop_event, auto_run, input_pc,
                   input_result, delivered, acc_pre, acc_chunk, acc_raised, fed>>
    /\ UNCHANGED ws_vars

Next ==
    \/ \E chunk \in InputChunks : InputStart(chunk)
    \/ InputStartJoined
    \/ \E chunk \in InputChunks : InputContent(chunk)
    \/ \E chunk \in InputChunks : InputEnd(chunk)
    \/ InputStopJoined
    \/ OutputCreate
    \/ OutputGet
    \/ \E t \in 1..MaxThreads : RespondBegin(t)
    \/ \E t \in 1..MaxThreads : RespondExhausted(t)
    \/ \E t \in 1..MaxThreads : RespondRaise(t)
    \/ \E t \in 1..MaxThreads, chunk \in GenChunks : RespondChunk(t, chunk)

Spec == Init /\ [][Next]_vars

(***************************************************************************)
(* Cycles one after the other: a transport that sends the end chunk of a    *)
(* message only when no response worker is alive, and the end chunk of a    *)
(* command at any time.                                                     *)
(***************************************************************************)
InputEndInTurn(chunk) ==
    /\ \/ \A t \in Workers : ~Alive(t)
       \/ /\ Len(messages) > 0
          /\ Get(LastOf(messages), "type") = Some("command")
    /\ InputEnd(chunk)

NextCycle ==
    \/ \E chunk \in InputChunks : InputStart(chunk)
    \/ InputStartJoined
    \/ \E chunk \in InputChunks : InputContent(chunk)
    \/ \E chunk \in InputChunks : InputEndInTurn(chunk)
    \/ InputStopJoined
    \/ OutputCreate
    \/ OutputGet
    \/ \E t \in 1..MaxThreads : RespondBegin(t)
    \/ \E t \in 1..MaxThreads : RespondExhausted(t)
    \/ \E t \in 1..MaxThreads : RespondRaise(t)
    \/ \E t \in 1..MaxThreads, chunk \in GenChunks : RespondChunk(t, chunk)

SpecCycle == Init /\ [][NextCycle]_vars

(***************************************************************************)
(* accumulate() called directly on the log, with any chunk.                 *)
(***************************************************************************)
AccumulateCall(chunk) ==
    LET r == accumulate(messages, chunk) IN
    /\ Bounded(r.messages)
    /\ messages' = r.messages
    /\ acc_pre' = messages
    /\ acc_chunk' = chunk
    /\ acc_raised' = r.raised
    /\ UNCHANGED <<respond_thread, stop_event, output_queue, auto_run, threads,
                   input_pc, input_result, puts, delivered, fed>>
    /\ UNCHANGED ws_vars

NextAcc == \E chunk \in AccChunks : AccumulateCall(chunk)

InitAcc == Init /\ auto_run = FALSE

SpecAcc == InitAcc /\ [][NextAcc]_vars

(***************************************************************************)
(* A sequence of chunks accumulated one after the other from the empty log. *)
(***************************************************************************)
FeedChunk(chunk) ==
    LET r == accumulate(messages, chunk) IN
    /\ Len(fed) < MaxFed
    /\ messages' = r.messages
    /\ acc_pre' = messages
    /\ acc_chunk' = chunk
    /\ acc_raised' = r.raised
    /\ fed' = Append(fed, chunk)
    /\ UNCHANGED <<respond_thread, stop_event, output_queue, auto_run, threads,
                   input_pc, input_result, puts, delivered>>
    /\ UNCHANGED ws_vars

NextSeq == \E chunk \in SeqChunks : FeedChunk(chunk)

SpecSeq == InitAcc /\ [][NextSeq]_vars

(***************************************************************************)
(* accumulate() called directly with binary frames among the chunks.        *)
(***************************************************************************)
\* the binary frames: the empty one and two that differ
BytesChunks == {[bytes |-> b] : b \in {"", "x", "y"}}

\* the dict chunks accumulated between them: with and without type, content
\* and start marker
BinChunks ==
    { MkChunk("user", t, None, c, s, FALSE) :
        t \in Opt({"message"}), c \in Opt({Str("a")}), s \in BOOLEAN }
    \cup BytesChunks

NextBin == \E chunk \in BinChunks : AccumulateCall(chunk)

SpecBin == InitAcc /\ [][NextBin]_vars

(***************************************************************************)
(* The websocket adapter (websocket_endpoint, lines 377-525): receive_input *)
(* and send_output, two coroutines of one event loop.  A step of either     *)
(* runs from one await to the next; while input() waits in join() the       *)
(* event loop is blocked and neither coroutine runs.                        *)
(*                                                                          *)
(* A frame is what websocket.receive() returns: a dict with the key "text"  *)
(* or "bytes", or the disconnect message.  The text of a text frame is      *)
(* <<"json", d>> when it is the JSON encoding of the dict d, <<"garbage">>  *)
(* when it is not JSON.                                                     *)
(***************************************************************************)
TextFrame(text) == [type |-> "websocket.receive", text |-> text]

BytesFrame == [type |-> "websocket.receive", bytes |-> "b"]

DisconnectFrame == [type |-> "websocket.disconnect"]

\* json.dumps(d)
JsonDumps(d) == <<"json", d>>

\* json.loads(text): the dict, or the error raised
JsonLoads(text) ==
    IF text[1] = "json"
    THEN [raised |-> "", value |-> text[2]]
    ELSE [raised |-> "JSONDecodeError", value |-> None]

AuthMsg(key) == [auth |-> key]

AckMsg(id) == [ack |-> id]

\* lines 219-234
authenticate_function(key) ==
    IF api_key = None THEN TRUE ELSE key = api_key[1]

\* the chunks a websocket peer sends
WsChunks == {StartChunk, HiChunk, EndChunk}

\* id = shortuuid.uuid() (line 444): the identifier of the item taken last,
\* different for every item
CurrentId == Len(delivered)

\* the frames a peer may send: auth messages with the right and a wrong key,
\* acknowledgements of the current item and of an identifier no item has,
\* chunks, text that is not JSON, a binary frame, a disconnect
WsFrames ==
    {TextFrame(JsonDumps(AuthMsg(k))) : k \in {"k", "x"}}
    \cup {TextFrame(JsonDumps(AckMsg(i))) : i \in {0, CurrentId}}
    \cup {TextFrame(JsonDumps(c)) : c \in WsChunks}
    \cup {TextFrame(<<"garbage">>), BytesFrame, DisconnectFrame}

\* the event loop is free to run a coroutine: input() is not in progress
LoopFree == Idle /\ recv_pc # "input"

\* lines 378-383 and 507: the connection is accepted and both coroutines are
\* scheduled
WsAccept ==
    /\ recv_pc = "closed"
    /\ recv_pc' = "receive"
    /\ send_pc' = "start"
    /\ UNCHANGED <<messages, respond_thread, stop_event, output_queue, auto_run,
                   threads, input_pc, input_result, puts, delivered, acc_pre,
                   acc_chunk, acc_raised, fed>>
    /\ UNCHANGED <<api_key, require_acknowledge, acknowledged_outputs,
                   authenticated, ws_reply, ws_passed, attempt, out, ws_count,
                   ws_order, ws_failures, ws_errors, http_vars>>

\* the global complete_message as send_output has left it (lines 452 and 37):
\* the sentinel taken from the queue is that very dict, so in acknowledgment
\* mode it keeps the identifier of its latest transmission
SentinelNow ==
    LET sent == {i \in 1..Len(ws_order) :
                    Has(ws_order[i], "id") /\ PopKey(ws_order[i], "id") = complete_message}
    IN IF sent = {} THEN complete_message
       ELSE ws_order[CHOOSE i \in sent : \A j \in sent : j <= i]

\* lines 425-433: the except clause of receive_input
ErrorReply == <<JsonDumps(error_message), JsonDumps(SentinelNow)>>

\* lines 389-402: a frame received before authentication
ReceiveUnauthenticated(data) ==
    /\ ~authenticated
    /\ ws_passed' = None
    /\ IF ~Has(data, "text")
       THEN /\ ws_reply' = <<JsonDumps([auth |-> FALSE])>>
            /\ UNCHANGED authenticated
       ELSE LET r == JsonLoads(data["text"]) IN
            IF r.raised # ""
            THEN /\ ws_reply' = ErrorReply
                 /\ UNCHANGED authenticated
            ELSE IF Has(r.value, "auth") /\ authenticate_function(r.value["auth"])
            THEN /\ authenticated' = TRUE
                 /\ ws_reply' = <<JsonDumps([auth |-> TRUE])>>
            ELSE /\ ws_reply' = <<JsonDumps([auth |-> FALSE])>>
                 /\ UNCHANGED authenticated
    /\ UNCHANGED <<recv_pc, acknowledged_outputs>>
    /\ UNCHANGED <<messages, respond_thread, stop_event, auto_run, threads,
                   input_pc, input_result>>

\* lines 404-414 and 418-436: a frame received after authentication that is
\* not passed to input(): text that is not JSON, an acknowledgement in
\* acknowledgment mode, a disconnect
ReceiveControl(data) ==
    /\ authenticated
    /\ ws_passed' = None
    /\ UNCHANGED authenticated
    /\ UNCHANGED <<messages, respond_thread, stop_event, auto_run, threads,
                   input_pc, input_result>>
    /\ \/ /\ data["type"] = "websocket.disconnect"
          /\ recv_pc' = "returned"
          /\ ws_reply' = <<>>
          /\ UNCHANGED acknowledged_outputs
       \/ /\ data["type"] = "websocket.receive"
          /\ Has(data, "text")
          /\ JsonLoads(data["text"]).raised # ""
          /\ ws_reply' = ErrorReply
          /\ UNCHANGED <<recv_pc, acknowledged_outputs>>
       \/ /\ data["type"] = "websocket.receive"
          /\ Has(data, "text")
          /\ JsonLoads(data["text"]).raised = ""
          /\ require_acknowledge
          /\ Has(JsonLoads(data["text"]).value, "ack")
          /\ Len(acknowledged_outputs) < MaxAcks
          /\ acknowledged_outputs'
               = Append(acknowledged_outputs, JsonLoads(data["text"]).value["ack"])
          /\ ws_reply' = <<>>
          /\ UNCHANGED recv_pc

\* what line 417 passes to input(): the dict of a text frame, the bytes of a
\* binary frame
InputArgument(data) ==
    IF Has(data, "text") THEN JsonLoads(data["text"]).value
    ELSE [bytes |-> data["bytes"]]

\* whether the frame reaches line 417
ReachesInput(data) ==
    /\ data["type"] = "websocket.receive"
    /\ Has(data, "text")
       => /\ JsonLoads(data["text"]).raised = ""
          /\ ~(require_acknowledge /\ Has(JsonLoads(data["text"]).value, "ack"))

\* input() of something it has no branch for (lines 63-71): bytes make the
\* test "start" in chunk raise, a dict without start, content and end is
\* ignored
InputNoBranch(arg) ==
    /\ Idle
    /\ IF IsBytesChunk(arg)
       THEN input_result' = CallRecord("none", "TypeError")
       ELSE /\ ~Has(arg, "start") /\ ~Has(arg, "content") /\ ~Has(arg, "end")
            /\ input_result' = CallRecord("none", "")
    /\ UNCHANGED <<messages, respond_thread, stop_event, output_queue, auto_run,
                   threads, input_pc, puts, delivered, acc_pre, acc_chunk,
                   acc_raised, fed>>

\* line 417: input(data) is entered
ReceiveInput(data) ==
    /\ authenticated
    /\ ReachesInput(data)
    /\ LET arg == InputArgument(data) IN
       /\ ws_passed' = Some(arg)
       /\ IF IsBytesChunk(arg)
          THEN InputNoBranch(arg)
          ELSE \/ InputStartCall(arg)
               \/ InputContentCall(arg)
               \/ InputEndCall(arg)
               \/ InputNoBranch(arg)
    /\ Len(threads') <= MaxWsThreads
    /\ recv_pc' = "input"
    /\ ws_reply' = <<>>
    /\ UNCHANGED <<authenticated, acknowledged_outputs>>

\* lines 385-436: one frame is received and served, up to the next
\* websocket.receive() or into input()
Receive(data) ==
    /\ recv_pc = "receive"
    /\ LoopFree
    /\ \/ /\ \/ ReceiveUnauthenticated(data)
             \/ ReceiveControl(data)
          /\ UNCHANGED <<output_queue, puts, delivered, acc_pre, acc_chunk,
                         acc_raised, fed>>
       \/ ReceiveInput(data)
    /\ UNCHANGED <<api_key, require_acknowledge, send_pc, attempt, out, ws_count,
                   ws_order, ws_failures, ws_errors, http_vars>>

\* ReceiveReturn with the exception of input() ending receive_input instead of
\* being answered inside the loop
ReceiveReturn_StopsServing ==
    /\ recv_pc = "input"
    /\ Idle
    /\ recv_pc' = IF input_result.raised # "" THEN "returned" ELSE "receive"
    /\ ws_reply' = IF input_result.raised # "" THEN ErrorReply ELSE <<>>
    /\ UNCHANGED <<messages, respond_thread, stop_event, output_queue, auto_run,
                   threads, input_pc, input_result, puts, delivered, acc_pre,
                   acc_chunk, acc_raised, fed>>
    /\ UNCHANGED <<api_key, require_acknowledge, acknowledged_outputs,
                   authenticated, ws_passed, send_pc, attempt, out, ws_count,
                   ws_order, ws_failures, ws_errors, http_vars>>

\* lines 417 and 425-433: input() returns or raises, and receive_input goes
\* back to websocket.receive()
ReceiveReturn ==
    /\ recv_pc = "input"
    /\ Idle
    /\ recv_pc' = "receive"
    /\ ws_reply' = IF input_result.raised # "" THEN ErrorReply ELSE <<>>
    /\ UNCHANGED <<messages, respond_thread, stop_event, output_queue, auto_run,
                   threads, input_pc, input_result, puts, delivered, acc_pre,
                   acc_chunk, acc_raised, fed>>
    /\ UNCHANGED <<api_key, require_acknowledge, acknowledged_outputs,
                   authenticated, ws_passed, send_pc, attempt, out, ws_count,
                   ws_order, ws_failures, ws_errors, http_vars>>

\* the variables of the interpreter send_output leaves alone
send_frame == <<messages, respond_thread, stop_event, auto_run, threads, input_pc,
                input_result, puts, acc_pre, acc_chunk, acc_raised, fed, api_key,
                require_acknowledge, authenticated, recv_pc, ws_reply, ws_passed>>

\* lines 441 and 98-99: send_output calls output() for the first time, which
\* creates the queue if there is none, and waits for an item
SendStart ==
    /\ send_pc = "start"
    /\ LoopFree
    /\ send_pc' = "output"
    /\ output_queue' = IF output_queue = None THEN Some(<<>>) ELSE output_queue
    /\ UNCHANGED <<delivered, acknowledged_outputs, attempt, out, ws_count,
                   ws_order, ws_failures, ws_errors, http_vars>>
    /\ UNCHANGED send_frame

\* SendGet taking the item placed last instead of the oldest one
SendGet_TakesNewest ==
    /\ send_pc = "output"
    /\ LoopFree
    /\ output_queue[1] # <<>>
    /\ out' = Some(LastOf(output_queue[1]))
    /\ output_queue' = Some(ButLast(output_queue[1]))
    /\ delivered' = Append(delivered, LastOf(output_queue[1]))
    /\ attempt' = 0
    /\ ws_count' = 0
    /\ send_pc' = "attempt"
    /\ UNCHANGED <<acknowledged_outputs, ws_order, ws_failures, ws_errors, http_vars>>
    /\ UNCHANGED send_frame

\* lines 441-446 and 100: output() returns the next item
SendGet ==
    /\ send_pc = "output"
    /\ LoopFree
    /\ output_queue[1] # <<>>
    /\ out' = Some(Head(output_queue[1]))
    /\ output_queue' = Some(Tail(output_queue[1]))
    /\ delivered' = Append(delivered, Head(output_queue[1]))
    /\ attempt' = 0
    /\ ws_count' = 0
    /\ send_pc' = "attempt"
    /\ UNCHANGED <<acknowledged_outputs, ws_order, ws_failures, ws_errors, http_vars>>
    /\ UNCHANGED send_frame

\* SendAttempt leaving the loop after the transmission in acknowledgment mode
\* too, without waiting for the acknowledgement
SendAttempt_NoWait ==
    /\ send_pc = "attempt"
    /\ LoopFree
    /\ attempt < Attempts
    /\ attempt' = attempt + 1
    /\ ws_count' = ws_count + 1
    /\ IF IsBytesChunk(out[1])
       THEN /\ out' = out
            /\ send_pc' = "attempt"
       ELSE /\ out' = IF require_acknowledge
                      THEN Some(SetKey(out[1], "id", CurrentId))
                      ELSE out
            /\ send_pc' = "output"
    /\ ws_order' = IF ws_count = 0 THEN Append(ws_order, out'[1]) ELSE ws_order
    /\ UNCHANGED <<output_queue, delivered, acknowledged_outputs, ws_failures,
                   ws_errors, http_vars>>
    /\ UNCHANGED send_frame

\* lines 446-456 and 477-478: one attempt transmits the item; a binary item
\* goes out by send_bytes and the loop goes on, a chunk gets the identifier in
\* acknowledgment mode, goes out by send_text and the loop is left unless an
\* acknowledgement is to be waited for
SendAttempt ==
    /\ send_pc = "attempt"
    /\ LoopFree
    /\ attempt < Attempts
    /\ attempt' = attempt + 1
    /\ ws_count' = ws_count + 1
    /\ IF IsBytesChunk(out[1])
       THEN /\ out' = out
            /\ send_pc' = "attempt"
       ELSE /\ out' = IF require_acknowledge
                      THEN Some(SetKey(out[1], "id", CurrentId))
                      ELSE out
            /\ send_pc' = IF require_acknowledge THEN "poll" ELSE "output"
    /\ ws_order' = IF ws_count = 0 THEN Append(ws_order, out'[1]) ELSE ws_order
    /\ UNCHANGED <<output_queue, delivered, acknowledged_outputs, ws_failures,
                   ws_errors, http_vars>>
    /\ UNCHANGED send_frame

\* a transmitted chunk without the identifier acknowledgment mode gave it
StripId(d) == IF Has(d, "id") THEN PopKey(d, "id") ELSE d

\* list.remove(x): the list without the first occurrence of x
RECURSIVE ListRemove(_, _)
ListRemove(list, x) ==
    IF list = <<>> THEN <<>>
    ELSE IF Head(list) = x THEN Tail(list)
    ELSE <<Head(list)>> \o ListRemove(Tail(list), x)

\* x in list
ListHas(list, x) == \E i \in 1..Len(list) : list[i] = x

\* lines 456-472: a poll finds the identifier, removes it and the item is
\* delivered
PollFound ==
    /\ send_pc = "poll"
    /\ LoopFree
    /\ ListHas(acknowledged_outputs, CurrentId)
    /\ acknowledged_outputs' = ListRemove(acknowledged_outputs, CurrentId)
    /\ send_pc' = "output"
    /\ UNCHANGED <<output_queue, delivered, attempt, out, ws_count, ws_order,
                   ws_failures, ws_errors, http_vars>>
    /\ UNCHANGED send_frame

\* lines 458-476 and 480-488: the last poll of the attempt does not find the
\* identifier (the polls before it, which change nothing, are not counted);
\* the attempt fails and, after a pause, the loop goes on
PollMiss ==
    /\ send_pc = "poll"
    /\ LoopFree
    /\ ~ListHas(acknowledged_outputs, CurrentId)
    /\ send_pc' = "attempt"
    /\ UNCHANGED <<output_queue, delivered, acknowledged_outputs, attempt, out,
                   ws_count, ws_order, ws_failures, ws_errors, http_vars>>
    /\ UNCHANGED send_frame

\* SendGiveUp one attempt early, as if the loop were range(99)
SendGiveUp_Early ==
    /\ send_pc = "attempt"
    /\ LoopFree
    /\ attempt = Attempts - 1
    /\ ws_failures' = Append(ws_failures, out[1])
    /\ ws_errors' = ws_errors \o <<JsonDumps(error_message), JsonDumps(SentinelNow)>>
    /\ UNCHANGED http_vars
    /\ send_pc' = "output"
    /\ UNCHANGED <<output_queue, delivered, acknowledged_outputs, attempt, out,
                   ws_count, ws_order>>
    /\ UNCHANGED send_frame

\* SendGiveUp putting the failed item back at the head of the queue, to be
\* delivered again
SendGiveUp_Requeues ==
    /\ send_pc = "attempt"
    /\ LoopFree
    /\ attempt = Attempts
    /\ ws_failures' = Append(ws_failures, out[1])
    /\ ws_errors' = ws_errors \o <<JsonDumps(error_message), JsonDumps(SentinelNow)>>
    /\ UNCHANGED http_vars
    /\ send_pc' = "output"
    /\ output_queue' = Some(<<StripId(out[1])>> \o output_queue[1])
    /\ UNCHANGED <<delivered, acknowledged_outputs, attempt, out, ws_count, ws_order>>
    /\ UNCHANGED send_frame

\* lines 489-502: the attempts are used up; the failure is reported to the
\* peer by an error chunk and the completion sentinel, and send_output goes
\* on to the next item
SendGiveUp ==
    /\ send_pc = "attempt"
    /\ LoopFree
    /\ attempt = Attempts
    /\ ws_failures' = Append(ws_failures, out[1])
    /\ ws_errors' = ws_errors \o <<JsonDumps(error_message), JsonDumps(SentinelNow)>>
    /\ UNCHANGED http_vars
    /\ send_pc' = "output"
    /\ UNCHANGED <<output_queue, delivered, acknowledged_outputs, attempt, out,
                   ws_count, ws_order>>
    /\ UNCHANGED send_frame

(***************************************************************************)
(* receive_input serving a peer, with the interpreter behind it.            *)
(***************************************************************************)
NextRecv ==
    \/ WsAccept
    \/ \E data \in WsFrames : Receive(data)
    \/ ReceiveReturn
    \/ InputStartJoined
    \/ SendStart
    \/ \E t \in 1..MaxWsThreads : RespondBegin(t)
    \/ \E t \in 1..MaxWsThreads : RespondExhausted(t)
    \/ \E t \in 1..MaxWsThreads : RespondRaise(t)
    \/ \E t \in 1..MaxWsThreads, chunk \in GenChunks : RespondChunk(t, chunk)

\* the environment of a server: the API key set or not, acknowledgment mode
\* on or off
InitRecv ==
    /\ Constructed
    /\ auto_run = FALSE
    /\ api_key \in {None, Some("k")}
    /\ require_acknowledge \in BOOLEAN

SpecRecv == InitRecv /\ [][NextRecv]_vars

(***************************************************************************)
(* send_output delivering what response workers place on the queue, with    *)
(* the peer's acknowledgements coming in through receive_input.             *)
(***************************************************************************)
\* what respond() places on the queue (lines 133, 135, 143, 144)
PutItems == {OkChunk, error_message, complete_message}

\* lines 133-144: a response worker places an item on the queue
WorkerPut(item) ==
    /\ ~QueueIsNone
    /\ Len(puts) < MaxItems
    /\ PutAll(0, <<item>>)
    /\ UNCHANGED <<messages, respond_thread, stop_event, auto_run, threads,
                   input_pc, input_result, delivered, acc_pre, acc_chunk,
                   acc_raised, fed>>
    /\ UNCHANGED ws_vars

\* the frames of a peer that only authenticates and acknowledges
ControlFrames ==
    {TextFrame(JsonDumps(AuthMsg("k")))}
    \cup {TextFrame(JsonDumps(AckMsg(i))) : i \in {0, CurrentId}}

NextSend ==
    \/ WsAccept
    \/ \E data \in ControlFrames : Receive(data)
    \/ ReceiveReturn
    \/ SendStart
    \/ SendGet
    \/ SendAttempt
    \/ PollFound
    \/ PollMiss
    \/ SendGiveUp
    \/ \E item \in PutItems : WorkerPut(item)

InitSend ==
    /\ Constructed
    /\ auto_run = FALSE
    /\ api_key = None
    /\ require_acknowledge \in BOOLEAN

SpecSend == InitSend /\ [][NextSend]_vars

(***************************************************************************)
(* A connection the peer leaves: receive_input returns on the disconnect    *)
(* message while send_output, the other coroutine of the gather of line     *)
(* 507, goes on.  What websocket.send_text and send_bytes do once the peer  *)
(* is gone depends on the server underneath: they return or they raise.     *)
(***************************************************************************)
\* the peer has disconnected and receive_input has returned (lines 418-420)
Disconnected == recv_pc = "returned"

\* lines 446-454 and 480-488: the transmission raises; the attempt is lost and,
\* after a pause, the loop goes on
SendAttemptRaises ==
    /\ send_pc = "attempt"
    /\ LoopFree
    /\ Disconnected
    /\ attempt < Attempts
    /\ attempt' = attempt + 1
    /\ out' = IF require_acknowledge /\ ~IsBytesChunk(out[1])
              THEN Some(SetKey(out[1], "id", CurrentId))
              ELSE out
    /\ send_pc' = "attempt"
    /\ UNCHANGED <<output_queue, delivered, acknowledged_outputs, ws_count,
                   ws_order, ws_failures, ws_errors, http_vars>>
    /\ UNCHANGED send_frame

\* lines 489-501 and 507-525: the attempts are used up and the transmission
\* of the error chunk raises too, out of send_output; the gather raises, the
\* handler fails to send its own error chunk and closes the websocket
SendGiveUpRaises ==
    /\ send_pc = "attempt"
    /\ LoopFree
    /\ Disconnected
    /\ attempt = Attempts
    /\ ws_failures' = Append(ws_failures, out[1])
    /\ send_pc' = "finished"
    /\ UNCHANGED <<output_queue, delivered, acknowledged_outputs, attempt, out,
                   ws_count, ws_order, ws_errors, http_vars>>
    /\ UNCHANGED send_frame

\* the frames of a peer that authenticates, opens a message, sends content
\* and leaves
ConnFrames ==
    {TextFrame(JsonDumps(AuthMsg("k"))), TextFrame(JsonDumps(StartChunk)),
     TextFrame(JsonDumps(HiChunk)), DisconnectFrame}

NextConn ==
    \/ WsAccept
    \/ \E data \in ConnFrames : Receive(data)
    \/ ReceiveReturn
    \/ SendStart
    \/ SendGet
    \/ SendAttempt
    \/ SendAttemptRaises
    \/ SendGiveUp
    \/ SendGiveUpRaises
    \/ \E item \in PutItems : WorkerPut(item)

\* acknowledgment mode off
InitConn ==
    /\ Constructed
    /\ auto_run = FALSE
    /\ api_key = None
    /\ require_acknowledge = FALSE

SpecConn == InitConn /\ [][NextConn]_vars


(***************************************************************************)
(* send_output with acknowledgment mode off and every send succeeding,      *)
(* delivering chunks and raw binary items (line 448).                       *)
(***************************************************************************)
\* what is placed on the queue: the items of respond() and a bytes object
RawItems == PutItems \cup {[bytes |-> "b"]}

NextRaw ==
    \/ WsAccept
    \/ SendStart
    \/ SendGet
    \/ SendAttempt
    \/ SendGiveUp
    \/ \E item \in RawItems : WorkerPut(item)

SpecRaw == InitConn /\ [][NextRaw]_vars

(***************************************************************************)
(* The HTTP routes POST / and POST /settings (create_router, lines 528-560) *)
(* behind the middleware of Server.__init__ (lines 713-723).  A request is  *)
(* served in one step of the event loop: neither the middleware nor the     *)
(* handlers wait for anything.                                              *)
(*                                                                          *)
(* A settings payload is the list of its (key, value) pairs in the order    *)
(* the dict yields them.  A value is <<"bool", b>> or, for a dict of one    *)
(* sub-setting, <<"dict", sub_key, sub_value>>.                             *)
(***************************************************************************)
Bool(b) == <<"bool", b>>

Dict(sub_key, sub_value) == <<"dict", sub_key, sub_value>>

\* isinstance(value, dict)
IsDict(value) == value[1] = "dict"

\* hasattr(async_interpreter, key) for the keys of the payloads
InterpreterHas(key) == key \in {"auto_run", "llm"}

\* hasattr(getattr(async_interpreter, "llm"), sub_key)
LlmHas(obj, sub_key) == sub_key \in DOMAIN obj

\* self.llm after setattr(async_interpreter, "llm", value) with a value that
\* is no dict: an object with none of the sub-settings
NoAttributes == <<>>

\* the value set_settings returns
Success == <<[status |-> "success"]>>

ErrorReturn(text, code) == <<[error |-> text], code>>

\* lines 538-560: the loop over the payload, from the settings st; it gives
\* the settings after the request and the value returned
RECURSIVE set_settings(_, _)
set_settings(st, payload) ==
    IF payload = <<>>
    THEN [auto_run |-> st.auto_run, llm |-> st.llm, returned |-> Success]
    ELSE LET key == Head(payload)[1]
             value == Head(payload)[2]
             fail(text, code) ==
                 [auto_run |-> st.auto_run, llm |-> st.llm,
                  returned |-> ErrorReturn(text, code)]
         IN
         IF key \in {"llm", "computer"} /\ IsDict(value)
         THEN IF key = "auto_run"
              THEN fail("not modifiable", 403)
              ELSE IF InterpreterHas(key)
              THEN IF LlmHas(st.llm, value[2])
                   THEN set_settings([st EXCEPT !.llm[value[2]] = value[3]],
                                     Tail(payload))
                   ELSE fail("sub-setting not found", 404)
              ELSE fail("setting not found", 404)
         ELSE IF InterpreterHas(key)
         THEN set_settings(
                  IF key = "auto_run"
                  THEN [st EXCEPT !.auto_run = value[2]]
                  ELSE [st EXCEPT !.llm = NoAttributes],
                  Tail(payload))
         ELSE fail("setting not found", 404)

\* lines 715-716 with 231-234: the key of the X-API-KEY header, None when the
\* request has no such header; None equals no key that is set
HeaderAccepted_AbsentPasses(header) ==
    IF header = None THEN TRUE ELSE authenticate_function(header[1])

HeaderAccepted(header) ==
    IF header = None THEN api_key = None ELSE authenticate_function(header[1])

\* lines 720-723
Forbidden ==
    [by |-> "validate_api_key",
     returned |-> <<[status_code |-> 403,
                     content |-> [detail |-> "Authentication failed"]]>>]

\* the keys a request presents: none, the one of InitHttp, another one
HeaderKeys == Opt({"k", "bad"})

\* the (key, value) pairs of the settings payloads
SettingsItems ==
    {<<"auto_run", Bool(b)>> : b \in BOOLEAN}
    \cup {<<"llm", Dict(k, "m1")>> : k \in {"model", "nosub"}}
    \cup {<<"llm", Bool(TRUE)>>, <<"nokey", Bool(TRUE)>>}

\* the payloads: one pair, or auto_run and a pair of another key after it
SettingsPayloads ==
    {<<i>> : i \in SettingsItems}
    \cup {p \in SettingsItems \X SettingsItems :
            p[1][1] = "auto_run" /\ p[2][1] # "auto_run"}

\* the payloads of POST /
PostPayloads == {HiChunk, EndChunk}

\* lines 713-723 and 536-560: POST /settings
HttpSetSettings(header, payload) ==
    /\ Idle
    /\ IF HeaderAccepted(header)
       THEN LET r == set_settings([auto_run |-> auto_run, llm |-> llm], payload) IN
            /\ auto_run' = r.auto_run
            /\ llm' = r.llm
            /\ http_reply' = [by |-> "set_settings", returned |-> r.returned]
       ELSE /\ http_reply' = Forbidden
            /\ UNCHANGED <<auto_run, llm>>
    /\ UNCHANGED <<messages, respond_thread, stop_event, output_queue, threads,
                   input_pc, input_result, puts, delivered, acc_pre, acc_chunk,
                   acc_raised, fed>>
    /\ UNCHANGED <<api_key, require_acknowledge, acknowledged_outputs,
                   authenticated, recv_pc, ws_reply, ws_passed, send_pc, attempt,
                   out, ws_count, ws_order, ws_failures, ws_errors>>

\* lines 713-723 and 528-534: POST /.  input(payload) is called and not
\* awaited: the coroutine it returns never runs
HttpPostInput(header, payload) ==
    /\ Idle
    /\ http_reply' = IF HeaderAccepted(header)
                     THEN [by |-> "post_input", returned |-> Success]
                     ELSE Forbidden
    /\ UNCHANGED <<messages, respond_thread, stop_event, output_queue, auto_run,
                   threads, input_pc, input_result, puts, delivered, acc_pre,
                   acc_chunk, acc_raised, fed, llm>>
    /\ UNCHANGED <<api_key, require_acknowledge, acknowledged_outputs,
                   authenticated, recv_pc, ws_reply, ws_passed, send_pc, attempt,
                   out, ws_count, ws_order, ws_failures, ws_errors>>

\* HTTP requests while messages are opened and closed and response cycles run
NextHttp ==
    \/ \E header \in HeaderKeys, payload \in SettingsPayloads :
          HttpSetSettings(header, payload)
    \/ \E header \in HeaderKeys, payload \in PostPayloads : HttpPostInput(header, payload)
    \/ InputStart(StartChunk)
    \/ InputStartJoined
    \/ InputEnd(EndChunk)
    \/ \E t \in 1..MaxThreads : RespondBegin(t)
    \/ \E t \in 1..MaxThreads : RespondExhausted(t)

\* INTERPRETER_API_KEY unset or set to "k"
InitHttp ==
    /\ Constructed
    /\ api_key \in Opt({"k"})
    /\ require_acknowledge = FALSE

SpecHttp == InitHttp /\ [][NextHttp]_vars


(***************************************************************************)
(* Properties of accumulate().                                              *)
(***************************************************************************)
AccCalled == acc_raised # "no call"

ActiveLine(chunk) == Get(chunk, "format") = Some("active_line")

\* both the last message and the chunk define field k, with different values
Differs(pre, chunk, k) ==
    Has(LastOf(pre), k) /\ Has(chunk, k) /\ chunk[k] # LastOf(pre)[k]

\* field k is equal wherever both sides define it
NoConflict(pre, chunk, k) ==
    ~ (Has(LastOf(pre), k) /\ Has(chunk, k) /\ chunk[k] # LastOf(pre)[k])

\* the chunk without its start marker, content defaulted to ""
AsNewMessage(chunk) ==
    LET c == PopKey(chunk, "start") IN
    IF Has(c, "content") THEN c ELSE SetKey(c, "content", Str(""))

C3_Sequence ==
    << MkChunk("user", Some("message"), None, None, TRUE, FALSE),
       MkChunk("user", None, None, Some(Str("a")), FALSE, FALSE),
       MkChunk("user", None, None, Some(Str("b")), FALSE, FALSE) >>

\* C3: accumulating [{start, type "message"}, {content "a"}, {content "b"}] on
\* the empty log yields, without error, exactly one message, of content "ab".
C3_OneMessageAB ==
    fed = C3_Sequence =>
        /\ acc_raised = ""
        /\ Len(messages) = 1
        /\ messages[1]["content"] = Str("ab")

\* C4 as stated: a chunk with content and no start marker, accumulated on the
\* empty log, raises and leaves the log empty, whatever its type and format.
C4_BareContentOnEmptyLogRaises ==
    (AccCalled /\ acc_pre = <<>> /\ Has(acc_chunk, "content")
       /\ ~Has(acc_chunk, "start"))
    => (acc_raised # "" /\ messages = <<>>)

\* C4 amended: a chunk with content and no start marker whose format is not
\* "active_line", accumulated on the empty log, raises and leaves the log
\* empty, whatever its type and format (an active_line chunk is discarded
\* without error).
C4_BareContentOnEmptyLogRaises_Amended ==
    (AccCalled /\ acc_pre = <<>> /\ Has(acc_chunk, "content")
       /\ ~Has(acc_chunk, "start") /\ ~ActiveLine(acc_chunk))
    => (acc_raised = "Exception" /\ messages = <<>>)

C4_Witness ==
    /\ acc_pre = <<>>
    /\ acc_chunk = MkChunk("user", Some("code"), Some("output"), Some(Str("a")),
                           FALSE, FALSE)
    /\ acc_raised = "Exception"
    /\ messages = <<>>

\* C5: a chunk with the start marker (format not "active_line") always opens a
\* new message: the call returns, the log grows by one, the existing messages
\* are unchanged and the new one is the chunk without start, content defaulted
\* to "".
C5_StartOpensNewMessage ==
    (AccCalled /\ Has(acc_chunk, "start") /\ ~ActiveLine(acc_chunk))
    => /\ acc_raised = ""
       /\ Len(messages) = Len(acc_pre) + 1
       /\ ButLast(messages) = acc_pre
       /\ LastOf(messages) = AsNewMessage(acc_chunk)

\* C6 as stated: on a non-empty log, a content chunk without start whose type
\* or format differs from the last message's opens a new message: the log
\* grows by one and the earlier messages, the previous last one included, are
\* unchanged.
C6_SwitchOpensNewMessage ==
    (AccCalled /\ Len(acc_pre) > 0 /\ Has(acc_chunk, "content")
       /\ ~Has(acc_chunk, "start")
       /\ (Differs(acc_pre, acc_chunk, "type") \/ Differs(acc_pre, acc_chunk, "format")))
    => /\ acc_raised = ""
       /\ Len(messages) = Len(acc_pre) + 1
       /\ ButLast(messages) = acc_pre

\* C6 amended: the same for every such chunk whose format is not
\* "active_line" (an active_line chunk is discarded, whatever it differs in).
C6_SwitchOpensNewMessage_Amended ==
    (AccCalled /\ Len(acc_pre) > 0 /\ Has(acc_chunk, "content")
       /\ ~Has(acc_chunk, "start") /\ ~ActiveLine(acc_chunk)
       /\ (Differs(acc_pre, acc_chunk, "type") \/ Differs(acc_pre, acc_chunk, "format")))
    => /\ acc_raised = ""
       /\ Len(messages) = Len(acc_pre) + 1
       /\ ButLast(messages) = acc_pre
       /\ LastOf(messages) = acc_chunk

C6_Witness ==
    /\ AccCalled
    /\ Len(acc_pre) = 1
    /\ Get(LastOf(acc_pre), "type") = Some("message")
    /\ LastOf(acc_pre)["content"] = Str("a")
    /\ Get(acc_chunk, "type") = Some("code")
    /\ Has(acc_chunk, "content")
    /\ ~Has(acc_chunk, "start")
    /\ Len(messages) = 2
    /\ messages[1] = LastOf(acc_pre)

\* C7: on a non-empty log, a content chunk without start (format not
\* "active_line") whose type and format are equal to the last message's
\* wherever both define them is appended to the last message: the call
\* returns, the log keeps its length and the last content becomes the old
\* content followed by the chunk's.
C7_CompatibleContentAppends ==
    (AccCalled /\ Len(acc_pre) > 0 /\ Has(acc_chunk, "content")
       /\ ~Has(acc_chunk, "start") /\ ~ActiveLine(acc_chunk)
       /\ NoConflict(acc_pre, acc_chunk, "type")
       /\ NoConflict(acc_pre, acc_chunk, "format"))
    => /\ acc_raised = ""
       /\ Len(messages) = Len(acc_pre)
       /\ ButLast(messages) = ButLast(acc_pre)
       /\ LastOf(messages)["content"]
            = PyAdd(LastOf(acc_pre)["content"], acc_chunk["content"])

(***************************************************************************)
(* Properties of the engine.                                                *)
(***************************************************************************)
AliveWorkers == {t \in Workers : Alive(t)}

\* C1: at most one response worker is alive at any time.
C1_AtMostOneWorkerAlive == Cardinality(AliveWorkers) <= 1

\* C2: on a fresh instance, input() of the single chunk {role user, type
\* message, content "hi", start, end} returns without error having started a
\* response cycle (whose output is then the generator's "ok" chunk and the
\* completion sentinel, the log holding two messages).
C2_EndToEnd ==
    [][ (input_result.call = "none" /\ messages = <<>>
           /\ InputStart(HiStartEndChunk))
        => (input_result'.raised = "" /\ respond_thread' # 0) ]_vars

\* the log ends with a closed "stop" command
StopCommandPending ==
    /\ Len(messages) > 0
    /\ Get(LastOf(messages), "type") = Some("command")
    /\ Get(LastOf(messages), "content") = Some(Str("stop"))

\* the sentinels thread t places on the queue in this step
NewSentinels(t) ==
    {i \in (Len(puts) + 1)..Len(puts') :
        puts'[i].thread = t /\ puts'[i].item = complete_message}

\* C8: while input() processes a stop command that found a cycle running, no
\* new cycle is started and the cancelled cycle's worker places no completion
\* sentinel on the queue; input() returns only once that worker has ended.
C8_StopEndsCycleQuietly ==
    [][ input_pc.at = "join_stop"
        => /\ Len(threads') = Len(threads)
           /\ NewSentinels(respond_thread) = {}
           /\ (input_pc'.at = "idle" => ~Alive(respond_thread)) ]_vars

\* C9: input() of an end chunk closing a stop command, when no worker is
\* alive, does not raise, starts no worker and places nothing on the queue.
C9_StopWithoutCycleIsNoOp ==
    [][ (StopCommandPending /\ AliveWorkers = {}
           /\ \E chunk \in InputChunks : InputEnd(chunk))
        => (input_result'.raised = "" /\ threads' = threads /\ puts' = puts) ]_vars

\* C10: no confirmation chunk is ever placed on the queue, and a cycle that
\* ended on a denied confirmation placed nothing after it but the completion
\* sentinel.
C10_DeniedConfirmationNotDelivered ==
    /\ \A i \in 1..Len(puts) : puts[i].item["type"] # "confirmation"
    /\ \A t \in Workers :
          threads[t].state = "denied"
          => /\ PutsOf(puts, t) # <<>>
             /\ LastOf(PutsOf(puts, t)) = complete_message
             /\ \A i \in 1..(Len(PutsOf(puts, t)) - 1) :
                   PutsOf(puts, t)[i] # complete_message

C10_Witness ==
    \E t \in Workers :
        /\ threads[t].state = "denied"
        /\ threads[t].decision = Some(FALSE)
        /\ PutsOf(puts, t) = <<OkChunk, complete_message>>

\* the log ends with a "go" command
GoCommandPending ==
    /\ Len(messages) > 0
    /\ Get(LastOf(messages), "type") = Some("command")
    /\ Get(LastOf(messages), "content") = Some(Str("go"))

C12_ExhaustionPlacesSentinel ==
    [][ \A t \in 1..MaxThreads :
          (RespondExhausted(t) /\ ~stop_event)
          => /\ puts' = Append(puts, [thread |-> t, item |-> complete_message])
             /\ ~Alive(t)' ]_vars

\* C13: when the generator raises, the worker places the error chunk and then
\* the completion sentinel on the queue, after what it had forwarded, and ends
\* without the failure leaving it; an end chunk received afterwards starts a
\* new cycle.
C13_FailurePlacesErrorAndSentinel ==
    [][ \A t \in 1..MaxThreads :
          /\ RespondRaise(t)
             => /\ puts' = puts \o << [thread |-> t, item |-> error_message],
                                     [thread |-> t, item |-> complete_message] >>
                /\ threads'[t].state = "failed"
          /\ (t = respond_thread /\ threads[t].state = "failed"
                /\ messages # <<>> /\ ~StopCommandPending /\ InputEnd(EndChunk))
             => /\ Len(threads') = Len(threads) + 1
                /\ Alive(respond_thread)' ]_vars

\* the items of a sequence
Items(seq) == {seq[i] : i \in 1..Len(seq)}

\* C14: a cycle that has ended without having been cancelled (generator
\* exhausted, confirmation denied, failure) has placed the completion
\* sentinel on the queue.
C14_EndedCycleHasSentinel ==
    \A t \in Workers :
        (~Alive(t) /\ threads[t].state # "cancelled")
        => complete_message \in Items(PutsOf(puts, t))

\* C17: while the cancellation flag is set, a worker that is alive places
\* nothing on the queue, whatever the generator does next.
C17_NothingPlacedAfterCancel ==
    [][ \A t \in Workers :
          (stop_event /\ Alive(t)) => PutsOf(puts', t) = PutsOf(puts, t) ]_vars

\* a step of input(): a branch of the dispatch or the return of a join
InputStep ==
    \/ \E chunk \in InputChunks : InputStart(chunk)
    \/ InputStartJoined
    \/ \E chunk \in InputChunks : InputContent(chunk)
    \/ \E chunk \in InputChunks : InputEnd(chunk)
    \/ InputStopJoined

\* C18: input() never changes the log while a response worker is alive.
C18_NoInputWriteWhileWorkerAlive ==
    [][ (InputStep /\ AliveWorkers # {}) => messages' = messages ]_vars

(***************************************************************************)
(* Properties of the websocket adapter.                                     *)
(***************************************************************************)
\* C15: in acknowledgment mode send_output is done with an item only when
\* its identifier was found in acknowledged_outputs or when it has
\* transmitted the item exactly 100 times, and then it reports the delivery
\* as failed; it never transmits an item a 101st time.
C15_ExactlyHundredAttempts ==
    [][ require_acknowledge
        => /\ ws_count' <= Attempts
           /\ (send_pc \in {"attempt", "poll"} /\ send_pc' = "output")
              => \/ /\ ListHas(acknowledged_outputs, CurrentId)
                    /\ ws_failures' = ws_failures
                 \/ /\ ws_count = Attempts
                    /\ ws_failures' = Append(ws_failures, out[1])
           /\ ws_failures' # ws_failures => ws_count = Attempts ]_vars

\* an item nobody acknowledged has gone out 100 times and its delivery has
\* been reported as failed
C15_Witness ==
    /\ require_acknowledge
    /\ acknowledged_outputs = <<>>
    /\ ws_count = Attempts
    /\ send_pc = "output"
    /\ Len(ws_failures) = 1
    /\ ws_failures[1] = out[1]

\* C16: the items go out to the peer in the order in which the workers placed
\* them on the queue (the order of the generator, respond() placing each chunk
\* as it receives it): the i-th item transmitted is the i-th item placed, and
\* every transmission counted for the current item is a transmission of the
\* item transmitted last.
C16_TransmittedInOrder ==
    /\ Len(ws_order) <= Len(puts)
    /\ \A i \in 1..Len(ws_order) : StripId(ws_order[i]) = puts[i].item
    /\ Len(delivered) <= Len(puts)
    /\ \A i \in 1..Len(delivered) : delivered[i] = puts[i].item
    /\ ws_count > 0 => (ws_order # <<>> /\ LastOf(ws_order) = out[1])

\* a chunk and then the completion sentinel have been placed and both have
\* gone out
C16_Witness ==
    /\ Len(puts) = 2
    /\ puts[1].item = OkChunk
    /\ puts[2].item = complete_message
    /\ Len(ws_order) = 2
    /\ ws_count > 0

\* C19: when input() has raised, receive_input sends the peer the error chunk
\* followed by the completion sentinel (and nothing when input() returned),
\* stays authenticated and goes back to receiving; the frame it receives next
\* is passed to input() like any other.
C19_InputErrorAnsweredAndServingGoesOn ==
    [][ /\ (recv_pc = "input" /\ recv_pc' # "input")
           => /\ ws_reply' = (IF input_result.raised # "" THEN ErrorReply ELSE <<>>)
              /\ recv_pc' = "receive"
              /\ authenticated' = authenticated
        /\ \A data \in WsFrames :
              (authenticated /\ ReachesInput(data) /\ Receive(data))
              => /\ ws_passed' = Some(InputArgument(data))
                 /\ recv_pc' = "input" ]_vars

\* a bare content chunk on the empty log made input() raise; the peer has
\* been sent the error chunk and the sentinel and receive_input is receiving
C19_Witness ==
    /\ authenticated
    /\ ws_passed = Some(HiChunk)
    /\ messages = <<>>
    /\ input_result = CallRecord("content", "Exception")
    /\ ws_reply = ErrorReply
    /\ recv_pc = "receive"

\* the interpreter as a frame of the peer could change it
interpreter_vars ==
    <<messages, respond_thread, stop_event, output_queue, auto_run, threads,
      input_pc, input_result, puts, delivered>>

\* C20: a frame received before authentication is never passed to input()
\* and leaves the interpreter unchanged; the auth message with an accepted
\* key is answered with {"auth": true} and every other frame with
\* {"auth": false}.
C20_NothingBeforeAuthentication ==
    [][ \A data \in WsFrames :
          (~authenticated /\ Receive(data))
          => /\ ws_passed' = None
             /\ recv_pc' = "receive"
             /\ interpreter_vars' = interpreter_vars
             /\ ws_reply' = << JsonDumps([auth |-> authenticated']) >>
             /\ authenticated'
                  = (/\ Has(data, "text")
                     /\ JsonLoads(data["text"]).raised = ""
                     /\ Has(JsonLoads(data["text"]).value, "auth")
                     /\ authenticate_function(JsonLoads(data["text"]).value["auth"])) ]_vars

(***************************************************************************)
(* Properties of accumulate() on binary frames.                             *)
(***************************************************************************)
\* the content of message m is a binary buffer
IsBinary(m) == Has(m, "content") /\ m["content"][1] = "bytes"

\* C21: a binary frame accumulated while the last message's content is ""
\* makes that content the bytes of the frame; a binary frame accumulated on a
\* binary content is concatenated after it, the log keeping its length and
\* everything else; and no accumulate() call, of any chunk, leaves a content
\* that was binary before it other than binary.
C21_BinaryContent ==
    AccCalled =>
      /\ (IsBytesChunk(acc_chunk) /\ Len(acc_pre) > 0
            /\ Get(LastOf(acc_pre), "content") = Some(Str("")))
         => /\ acc_raised = ""
            /\ messages = WithLast(acc_pre, SetKey(LastOf(acc_pre), "content",
                                                   Bytes(acc_chunk["bytes"])))
      /\ (IsBytesChunk(acc_chunk) /\ Len(acc_pre) > 0 /\ IsBinary(LastOf(acc_pre)))
         => /\ acc_raised = ""
            /\ messages
                 = WithLast(acc_pre,
                            SetKey(LastOf(acc_pre), "content",
                                   Bytes(LastOf(acc_pre)["content"][2]
                                         \o acc_chunk["bytes"])))
      /\ \A i \in 1..Len(acc_pre) :
            IsBinary(acc_pre[i]) => (i <= Len(messages) /\ IsBinary(messages[i]))

\* the frame "y" has been accumulated on a content made binary by the frame
\* "x", giving "xy"
C21_Witness ==
    /\ acc_chunk = [bytes |-> "y"]
    /\ acc_raised = ""
    /\ Len(acc_pre) = 1
    /\ acc_pre[1]["content"] = Bytes("x")
    /\ Len(messages) = 1
    /\ messages[1]["content"] = Bytes("xy")

(***************************************************************************)
(* Properties of input().                                                   *)
(***************************************************************************)
\* C22: input() of a start chunk while a response worker is alive sets the
\* cancellation flag and waits, the log unchanged, and the start chunk is
\* accumulated only once no worker is alive.
C22_StartWaitsForWorker ==
    [][ \A chunk \in InputChunks :
          /\ (InputStart(chunk) /\ AliveWorkers # {})
             => /\ stop_event'
                /\ input_pc'.at = "join_start"
                /\ messages' = messages
          /\ ((InputStart(chunk) \/ InputStartJoined) /\ messages' # messages)
             => AliveWorkers = {} ]_vars

\* the log ends with a command message
CommandPending ==
    /\ Len(messages) > 0
    /\ Get(LastOf(messages), "type") = Some("command")

UnknownCommandPending ==
    /\ CommandPending
    /\ LastOf(messages)["content"] \notin {Str("stop"), Str("go")}

\* C24: input() of an end chunk closing a command that is neither "stop" nor
\* "go" does not raise, leaves the cancellation flag clear and starts a cycle
\* with no approval, as an end chunk closing an ordinary message does; the
\* run_code decision of a cycle started with no approval is the auto_run
\* setting.
C24_UnknownCommandIgnored ==
    [][ /\ \A chunk \in InputChunks :
              (InputEnd(chunk) /\ UnknownCommandPending)
              => /\ input_result'.raised = ""
                 /\ ~stop_event'
                 /\ input_pc' = input_pc
                 /\ Len(threads') = Len(threads) + 1
                 /\ respond_thread' = Len(threads')
                 /\ threads'[respond_thread'].run_code = None
        /\ \A t \in Workers :
              (threads[t].run_code = None /\ RespondBegin(t))
              => threads'[t].decision = Some(auto_run) ]_vars

\* the only message of the log was a command of empty content; the end chunk
\* removed it and the cycle it started has taken auto_run for its decision
C24_Witness ==
    /\ messages = <<>>
    /\ input_result = CallRecord("end", "")
    /\ Len(threads) = 1
    /\ threads[1].state = "running"
    /\ threads[1].yielded = 0
    /\ threads[1].decision = Some(auto_run)
    /\ ~stop_event

(***************************************************************************)
(* Properties of send_output in acknowledgment mode.                        *)
(***************************************************************************)
\* list.count(x)
Count(list, x) == Cardinality({i \in 1..Len(list) : list[i] = x})

\* send_output holds an item it is not yet done with
ItemPending == send_pc \in {"attempt", "poll"}

\* C25: in acknowledgment mode, while send_output holds an item it takes no
\* other item from the queue and transmits no other item; it is done with the
\* item only when a poll has found the item's identifier in
\* acknowledged_outputs or when the attempts are used up; the poll that finds
\* the identifier removes it (one occurrence, the other identifiers staying),
\* and from then on nothing is transmitted until the next item is taken.
C25_WaitsForAcknowledgement ==
    [][ require_acknowledge
        => /\ ItemPending
              => /\ delivered' = delivered
                 /\ out'[1] \in {out[1], SetKey(out[1], "id", CurrentId)}
                 /\ \/ ws_order' = ws_order
                    \/ ws_count = 0 /\ ws_order' = Append(ws_order, out'[1])
           /\ (ItemPending /\ ~ItemPending')
              => \/ send_pc = "poll" /\ ListHas(acknowledged_outputs, CurrentId)
                 \/ attempt = Attempts
           /\ (send_pc = "poll" /\ ~ItemPending')
              => /\ Count(acknowledged_outputs', CurrentId)
                      = Count(acknowledged_outputs, CurrentId) - 1
                 /\ Len(acknowledged_outputs') = Len(acknowledged_outputs) - 1
           /\ send_pc = "output"
              => /\ ws_order' = ws_order
                 /\ (ws_count' = ws_count \/ delivered' # delivered) ]_vars

\* the first item was acknowledged and its identifier removed; only then was
\* the second item taken and transmitted
C25_Witness ==
    /\ require_acknowledge
    /\ Len(delivered) = 2
    /\ Len(ws_order) = 2
    /\ ws_order[1] = SetKey(puts[1].item, "id", 1)
    /\ ws_failures = <<>>
    /\ acknowledged_outputs = <<>>
    /\ send_pc = "poll"

\* the step in which send_output gives an item up
DeliveryFails == send_pc = "attempt" /\ attempt = Attempts /\ send_pc' # "attempt"

\* C26: when the attempts for an item are used up, send_output sends the peer
\* an error chunk followed by the completion sentinel, leaves the queue as it
\* is (the failed item is not put back), starts no response cycle and goes on
\* to take the next item; after failures as before them, the i-th item taken
\* or transmitted is the i-th item placed on the queue, each transmitted
\* under one identifier.
C26_FailureAbortsOneItem ==
    [][ /\ DeliveryFails
           => /\ Len(ws_errors') = Len(ws_errors) + 2
              /\ SubSeq(ws_errors', 1, Len(ws_errors)) = ws_errors
              /\ ws_errors'[Len(ws_errors) + 1] = JsonDumps(error_message)
              /\ ws_errors'[Len(ws_errors) + 2][1] = "json"
              /\ StripId(ws_errors'[Len(ws_errors) + 2][2]) = complete_message
              /\ ws_failures' = Append(ws_failures, out[1])
              /\ output_queue' = output_queue
              /\ puts' = puts
              /\ threads' = threads
              /\ respond_thread' = respond_thread
              /\ stop_event' = stop_event
              /\ send_pc' = "output"
        /\ ws_failures # <<>>
           => /\ Len(delivered') <= Len(puts')
              /\ \A i \in 1..Len(delivered') : delivered'[i] = puts'[i].item
              /\ Len(ws_order') <= Len(delivered')
              /\ \A i \in 1..Len(ws_order') :
                    ws_order'[i] = SetKey(puts'[i].item, "id", i) ]_vars

\* the delivery of the first item failed; the second item was then taken,
\* transmitted and acknowledged
C26_Witness ==
    /\ require_acknowledge
    /\ Len(puts) = 2
    /\ ws_failures = <<SetKey(puts[1].item, "id", 1)>>
    /\ Len(ws_errors) = 2
    /\ Len(delivered) = 2
    /\ ws_order = <<SetKey(puts[1].item, "id", 1), SetKey(puts[2].item, "id", 2)>>
    /\ send_pc = "output"
    /\ attempt < Attempts

(***************************************************************************)
(* Properties of a connection the peer has left.                            *)
(***************************************************************************)
\* C27: once receive_input has returned on a disconnect message, nothing
\* more is passed to input() and no further item is taken from the queue.
C27_DisconnectStopsConsuming ==
    [][ Disconnected
        => /\ recv_pc' = recv_pc
           /\ ws_passed' = ws_passed
           /\ input_result' = input_result
           /\ messages' = messages
           /\ delivered' = delivered ]_vars

(***************************************************************************)
(* Properties of cancellation.                                              *)
(***************************************************************************)
\* input() is waiting in join()
Joining == input_pc.at \in {"join_start", "join_stop"}

\* a step of the generator of thread t: it yields a chunk, ends or raises
GeneratorStep(t) ==
    \/ RespondExhausted(t)
    \/ RespondRaise(t)
    \/ \E chunk \in GenChunks : RespondChunk(t, chunk)

\* C28: input() of a start chunk, or of the end chunk closing a stop command,
\* while a worker is alive does not raise, neither at once nor when the join
\* returns; and while input() waits in join(), the next step of the
\* generator of the worker waited for ends that worker.
C28_CancellationReturnsQuietly ==
    [][ /\ \A chunk \in InputChunks :
              ((InputStart(chunk) \/ (StopCommandPending /\ InputEnd(chunk)))
                 /\ AliveWorkers # {})
              => input_result'.raised = ""
        /\ (InputStartJoined \/ InputStopJoined) => input_result'.raised = ""
        /\ (Joining /\ GeneratorStep(respond_thread)) => ~Alive(respond_thread)' ]_vars

(***************************************************************************)
(* Further properties of accumulate() on dict chunks.                       *)
(***************************************************************************)
\* C29: accumulate() of a chunk whose format is "active_line" returns without
\* error and leaves the log as it was, whatever the log and whatever type,
\* content and start marker the chunk carries.
C29_ActiveLineDiscarded ==
    (AccCalled /\ ActiveLine(acc_chunk))
    => (acc_raised = "" /\ messages = acc_pre)

\* an active_line chunk with type, content and start marker on the empty log
C29_Witness ==
    /\ acc_chunk = MkChunk("user", Some("code"), Some("active_line"),
                           Some(Str("a")), TRUE, FALSE)
    /\ acc_pre = <<>>
    /\ acc_raised = ""
    /\ messages = <<>>

\* field k of the last message after the call is what backfilling makes of
\* it: kept when the message had it, taken from the chunk when only the chunk
\* defines it, absent otherwise
Backfilled(k) ==
    Get(LastOf(messages), k)
      = (IF Has(LastOf(acc_pre), k) THEN Get(LastOf(acc_pre), k)
         ELSE Get(acc_chunk, k))

\* C30: a content chunk taken by the append branch on a non-empty log is
\* appended without error, whether or not it carries a type; type and format
\* of the last message are backfilled from the chunk and never overwritten;
\* and a last message without content gets exactly the chunk's content.
C30_AppendBackfills ==
    (AccCalled /\ Len(acc_pre) > 0 /\ ~ActiveLine(acc_chunk)
       /\ ~IsBytesChunk(acc_chunk) /\ AppendCondition(acc_pre, acc_chunk))
    => /\ acc_raised = ""
       /\ Len(messages) = Len(acc_pre)
       /\ Backfilled("type")
       /\ Backfilled("format")
       /\ ~Has(LastOf(acc_pre), "content")
          => LastOf(messages)["content"] = acc_chunk["content"]

(***************************************************************************)
(* Properties of the log under input processing.                            *)
(***************************************************************************)
\* the log after is no shorter than the log before and differs from it in
\* its last message at most
KeepsAllButLast(before, after) ==
    /\ Len(after) >= Len(before)
    /\ \A i \in 1..(Len(before) - 1) : after[i] = before[i]

NamesAutoRun(payload) == \E i \in 1..Len(payload) : payload[i][1] = "auto_run"

\* C32: a POST /settings request leaves auto_run as it was, whatever its
\* payload, and a request whose payload has the key auto_run is answered
\* with an error.
C32_AutoRunNotModifiable ==
    [][ \A header \in HeaderKeys, payload \in SettingsPayloads :
          HttpSetSettings(header, payload)
          => /\ auto_run' = auto_run
             /\ NamesAutoRun(payload) => http_reply'.returned # Success ]_vars

\* INTERPRETER_API_KEY is unset or equals the key the request presents
KeyAccepted(header) == api_key = None \/ header = api_key

\* a request with that X-API-KEY header is served
HttpRequest(header) ==
    \/ \E payload \in SettingsPayloads : HttpSetSettings(header, payload)
    \/ \E payload \in PostPayloads : HttpPostInput(header, payload)

\* C33: an HTTP request is passed to its route handler if and only if
\* INTERPRETER_API_KEY is unset or equals the key of its X-API-KEY header;
\* otherwise it is answered with status 403 and the log, the settings, the
\* cancellation flag, the worker threads and the queue are left unchanged.
C33_UnacceptedKeyRefused ==
    [][ \A header \in HeaderKeys :
          HttpRequest(header)
          => IF KeyAccepted(header)
             THEN http_reply'.by \in {"set_settings", "post_input"}
             ELSE /\ http_reply' = Forbidden
                  /\ http_reply'.returned[1].status_code = 403
                  /\ UNCHANGED <<messages, auto_run, llm, stop_event, threads,
                                 respond_thread, output_queue, puts, input_pc>> ]_vars

\* a request was refused while a response cycle was running on a log that
\* holds a message
C33_Witness ==
    /\ api_key = Some("k")
    /\ http_reply = Forbidden
    /\ Len(messages) > 0
    /\ \E t \in Workers : threads[t].state = "running"

(***************************************************************************)
(* Properties of send_output with acknowledgment mode off.                  *)
(***************************************************************************)
\* C34: with acknowledgment mode off and sends that succeed, send_output
\* transmits the item it has taken from the queue, a chunk or a raw binary
\* item, exactly once: never a second time, once by the time it goes on to
\* the next item, and it reports no delivery as failed.
C34_TransmittedExactlyOnce ==
    ~require_acknowledge
    => /\ ws_count <= 1
       /\ ws_failures = <<>>
       /\ (send_pc = "output" /\ out # None) => ws_count = 1

(***************************************************************************)
(* Properties of the queue and of successive cycles.                        *)
(***************************************************************************)
\* C35: whenever a response worker comes to place an item on the queue, the
\* queue exists: no worker ends by a put that found self.output_queue to be
\* None, and so a cycle that has ended without being cancelled has placed its
\* completion sentinel for the consumer to take, whenever output() is first
\* called.
C35_ChannelExistsAtPut ==
    \A t \in Workers :
        /\ threads[t].state # "crashed"
        /\ threads[t].state \in {"completed", "denied", "failed"}
           => LastOf(PutsOf(puts, t)) = complete_message

\* the cycle before cycle t was cancelled
AfterCancelled(t) == t > 1 /\ threads[t - 1].state = "cancelled"

\* C36: a cycle started by an end chunk after the cycle before it was
\* cancelled and its worker has ended begins with the cancellation flag
\* clear; while the flag stays clear it forwards the chunks its generator
\* yields, and unless it is cancelled in its turn it ends with the completion
\* sentinel as the last item it has placed.
C36_NoCancellationLeak ==
    [][ /\ \A chunk \in InputChunks :
              (InputEnd(chunk) /\ Len(threads') > Len(threads)
                 /\ AfterCancelled(Len(threads')))
              => (~stop_event' /\ respond_thread' = Len(threads'))
        /\ \A t \in Workers :
              AfterCancelled(t)
              => /\ (RespondChunk(t, OkChunk) /\ ~stop_event)
                    => \/ PutsOf(puts', t) = Append(PutsOf(puts, t), OkChunk)
                       \/ threads'[t].state = "failed"
                 /\ (Alive(t) /\ ~Alive(t)' /\ threads'[t].state # "cancelled")
                    => /\ PutsOf(puts', t) # <<>>
                       /\ LastOf(PutsOf(puts', t)) = complete_message ]_vars

(***************************************************************************)
(* Properties of the shared completion sentinel.                            *)
(***************************************************************************)
\* a frame that carries a completion sentinel
IsSentinelFrame(frame) ==
    frame[1] = "json" /\ Get(frame[2], "type") = Some("status")

\* C37: the global complete_message keeps its three fields role, type and
\* content and gets no other, with acknowledgment mode on or off, and every
\* completion sentinel sent by the except clauses of receive_input and
\* send_output is that dict with exactly those fields, without an identifier.
C37_SentinelNeverModified ==
    /\ SentinelNow = complete_message
    /\ \A i \in 1..Len(ws_errors) :
          IsSentinelFrame(ws_errors[i]) => ws_errors[i] = JsonDumps(complete_message)
    /\ \A i \in 1..Len(ws_reply) :
          IsSentinelFrame(ws_reply[i]) => ws_reply[i] = JsonDumps(complete_message)

====
